---- MODULE Spec2Model ----
(***************************************************************************)
(* Model of twentytwenty.py: the tray controller (TwentyTwentyApp) and the *)
(* break dialog (BreakDialog), both driven by one Qt event loop.  Every    *)
(* action is one callback run to completion; a signal emitted inside a     *)
(* callback runs its connected slots inside the same step (direct          *)
(* connections on one thread).                                             *)
(*                                                                         *)
(* self.break_dialog is the only reference to a BreakDialog, so rebinding  *)
(* it releases the previous dialog together with its countdown timer and   *)
(* its pending single shot; the model therefore keeps one dialog slot.     *)
(* A dialog that was closed stays referenced, and so stays alive, until    *)
(* the next one replaces it.                                               *)
(***************************************************************************)
EXTENDS Integers, Sequences, FiniteSets, TLC

VARIABLES
    process,            \* "running" | "exit_0" | "exit_1"
    error_box,          \* QMessageBox.critical was shown
    debug_mode,         \* self.debug_mode
    timer_running,      \* self.timer_running
    minutes_remaining,  \* self.minutes_remaining
    main_timer,         \* self.main_timer: [active, interval]
    start_action,       \* self.start_action.isEnabled()
    stop_action,        \* self.stop_action.isEnabled()
    tray_icon,          \* icon currently set on self.tray_icon
    tray_tooltip,       \* tooltip currently set on self.tray_icon
    tray_visible,       \* self.tray_icon.show() was called
    break_dialog,       \* self.break_dialog: <<>> (None) or <<dialog record>>
    last,               \* history: the callback that ran in the last step
    break_emits,        \* history: break_time emissions in the last step
    created,            \* history: BreakDialog constructions in the last step
    finished_emits,     \* history: finished emissions in the last step
    clock               \* seconds until each active timer fires, when timed

vars == <<process, error_box, debug_mode, timer_running, minutes_remaining,
          main_timer, start_action, stop_action, tray_icon, tray_tooltip,
          tray_visible, break_dialog, last, break_emits, created,
          finished_emits, clock>>

----------------------------------------------------------------------------
(* Program constants *)

WorkMinutes == 20
BreakSeconds == 20
DebugInterval == 1000
ProductionInterval == 60000
CountdownInterval == 1000
GraceDelay == 2000
UrgentLimit == 5
WarningLimit == 10

DarkBlueGray == <<46, 52, 64>>
White == <<255, 255, 255>>
Gray == <<136, 136, 136>>
Red == <<255, 68, 68>>
Orange == <<255, 170, 68>>
Green == <<68, 255, 68>>

None == <<>>

----------------------------------------------------------------------------
(* Pure helpers *)

Digits == <<"0", "1", "2", "3", "4", "5", "6", "7", "8", "9">>

RECURSIVE str(_)
str(n) ==
    IF n < 0 THEN <<"-">> \o str(-n)
    ELSE IF n < 10 THEN <<Digits[n + 1]>>
    ELSE str(n \div 10) \o <<Digits[(n % 10) + 1]>>

\* create_tray_icon with strict comparisons (< instead of <=).
create_tray_icon_strict_limits(running, minutes) ==
    [bg   |-> IF running THEN DarkBlueGray ELSE White,
     fg   |-> IF ~running THEN Gray
              ELSE IF minutes < UrgentLimit THEN Red
              ELSE IF minutes < WarningLimit THEN Orange
              ELSE Green,
     text |-> str(minutes)]

create_tray_icon(running, minutes) ==
    [bg   |-> IF running THEN DarkBlueGray ELSE White,
     fg   |-> IF ~running THEN Gray
              ELSE IF minutes <= UrgentLimit THEN Red
              ELSE IF minutes <= WarningLimit THEN Orange
              ELSE Green,
     text |-> str(minutes)]

NoIcon == [bg |-> <<>>, fg |-> <<>>, text |-> <<>>]

InitialToolTip == <<"20-20-20 Eye Break Timer">>

ToolTip(minutes) == <<"20-20-20 Timer: ">> \o str(minutes) \o <<" minutes remaining">>

RemainingText(seconds) == str(seconds) \o <<" seconds remaining">>

CompleteText == <<"Break complete!">>

\* BreakDialog.__init__ followed by setup_ui; ticks, finished_count and
\* close_path are history fields.
BreakDialog ==
    [seconds_remaining |-> BreakSeconds,
     countdown_label   |-> <<"2", "0", " seconds remaining">>,
     done_button       |-> "Done Early",
     countdown_timer   |-> [active |-> TRUE, interval |-> CountdownInterval],
     single_shot       |-> FALSE,
     visible           |-> FALSE,
     ticks             |-> 0,
     finished_count    |-> 0,
     close_path        |-> "none"]

HasDialog == break_dialog # None
D == break_dialog[1]

----------------------------------------------------------------------------
(* Initial state: after TwentyTwentyApp.__init__ *)

InitAvailable ==
    /\ process = "running"
    /\ error_box = FALSE
    /\ debug_mode \in BOOLEAN
    /\ timer_running = FALSE
    /\ minutes_remaining = WorkMinutes
    /\ main_timer = [active |-> FALSE, interval |-> 0]
    /\ start_action = TRUE
    /\ stop_action = FALSE
    /\ tray_icon = create_tray_icon(FALSE, 20)
    /\ tray_tooltip = InitialToolTip
    /\ tray_visible = TRUE
    /\ break_dialog = None
    /\ last = "init"
    /\ break_emits = 0
    /\ created = 0
    /\ finished_emits = 0

\* setup_tray that shows the message box but does not exit.
InitUnavailable_continues ==
    /\ process = "running"
    /\ error_box = TRUE
    /\ debug_mode \in BOOLEAN
    /\ timer_running = FALSE
    /\ minutes_remaining = WorkMinutes
    /\ main_timer = [active |-> FALSE, interval |-> 0]
    /\ start_action = TRUE
    /\ stop_action = FALSE
    /\ tray_icon = create_tray_icon(FALSE, 20)
    /\ tray_tooltip = InitialToolTip
    /\ tray_visible = TRUE
    /\ break_dialog = None
    /\ last = "init"
    /\ break_emits = 0
    /\ created = 0
    /\ finished_emits = 0

\* setup_tray found no system tray: message box, then sys.exit(1) before the
\* icon, the menu actions and the main timer are created.
InitUnavailable ==
    /\ process = "exit_1"
    /\ error_box = TRUE
    /\ debug_mode \in BOOLEAN
    /\ timer_running = FALSE
    /\ minutes_remaining = WorkMinutes
    /\ main_timer = [active |-> FALSE, interval |-> 0]
    /\ start_action = FALSE
    /\ stop_action = FALSE
    /\ tray_icon = NoIcon
    /\ tray_tooltip = <<>>
    /\ tray_visible = FALSE
    /\ break_dialog = None
    /\ last = "init"
    /\ break_emits = 0
    /\ created = 0
    /\ finished_emits = 0

\* Without timing every active timer may fire at any moment and the clock
\* is not used.
Untimed == [timed |-> FALSE, main |-> 0, countdown |-> 0, grace |-> 0]

Init ==
    /\ InitAvailable \/ InitUnavailable
    /\ clock = Untimed

----------------------------------------------------------------------------
(* Slots of the tray controller *)

update_tray_icon(running, minutes) ==
    /\ tray_icon' = create_tray_icon(running, minutes)
    /\ tray_tooltip' = ToolTip(minutes)

show_break_notification ==
    /\ break_dialog' = <<[BreakDialog EXCEPT !.visible = TRUE]>>
    /\ created' = 1

break_finished ==
    /\ start_action' = TRUE
    /\ stop_action' = FALSE
    /\ update_tray_icon(timer_running, 20)

\* start_timer without the stop_action.setEnabled(True) call.
start_timer_stop_left_disabled ==
    /\ timer_running' = TRUE
    /\ minutes_remaining' = WorkMinutes
    /\ main_timer' = [active   |-> TRUE,
                      interval |-> IF debug_mode THEN DebugInterval
                                   ELSE ProductionInterval]
    /\ start_action' = FALSE
    /\ UNCHANGED stop_action
    /\ update_tray_icon(TRUE, 20)
    /\ UNCHANGED break_dialog
    /\ break_emits' = 0
    /\ created' = 0
    /\ finished_emits' = 0

start_timer ==
    /\ timer_running' = TRUE
    /\ minutes_remaining' = WorkMinutes
    /\ main_timer' = [active   |-> TRUE,
                      interval |-> IF debug_mode THEN DebugInterval
                                   ELSE ProductionInterval]
    /\ start_action' = FALSE
    /\ stop_action' = TRUE
    /\ update_tray_icon(TRUE, 20)
    /\ UNCHANGED break_dialog
    /\ break_emits' = 0
    /\ created' = 0
    /\ finished_emits' = 0

\* stop_timer without the main_timer.stop() call.
stop_timer_keeps_ticking ==
    /\ timer_running' = FALSE
    /\ UNCHANGED main_timer
    /\ minutes_remaining' = WorkMinutes
    /\ start_action' = TRUE
    /\ stop_action' = FALSE
    /\ update_tray_icon(FALSE, 20)
    /\ UNCHANGED break_dialog
    /\ break_emits' = 0
    /\ created' = 0
    /\ finished_emits' = 0

stop_timer ==
    /\ timer_running' = FALSE
    /\ main_timer' = [main_timer EXCEPT !.active = FALSE]
    /\ minutes_remaining' = WorkMinutes
    /\ start_action' = TRUE
    /\ stop_action' = FALSE
    /\ update_tray_icon(FALSE, 20)
    /\ UNCHANGED break_dialog
    /\ break_emits' = 0
    /\ created' = 0
    /\ finished_emits' = 0

\* timer_tick that subtracts 2 per tick.
timer_tick_double_decrement ==
    IF ~timer_running
    THEN /\ UNCHANGED <<timer_running, minutes_remaining, main_timer,
                        tray_icon, tray_tooltip, break_dialog>>
         /\ break_emits' = 0
         /\ created' = 0
    ELSE /\ minutes_remaining' = minutes_remaining - 2
         /\ update_tray_icon(timer_running, minutes_remaining - 2)
         /\ IF minutes_remaining - 2 <= 0
            THEN /\ timer_running' = FALSE
                 /\ main_timer' = [main_timer EXCEPT !.active = FALSE]
                 /\ break_emits' = 1
                 /\ show_break_notification
            ELSE /\ UNCHANGED <<timer_running, main_timer, break_dialog>>
                 /\ break_emits' = 0
                 /\ created' = 0

\* timer_tick without the main_timer.stop() call at expiry.
timer_tick_timer_left_active ==
    IF ~timer_running
    THEN /\ UNCHANGED <<timer_running, minutes_remaining, main_timer,
                        tray_icon, tray_tooltip, break_dialog>>
         /\ break_emits' = 0
         /\ created' = 0
    ELSE /\ minutes_remaining' = minutes_remaining - 1
         /\ update_tray_icon(timer_running, minutes_remaining - 1)
         /\ IF minutes_remaining - 1 <= 0
            THEN /\ timer_running' = FALSE
                 /\ UNCHANGED main_timer
                 /\ break_emits' = 1
                 /\ show_break_notification
            ELSE /\ UNCHANGED <<timer_running, main_timer, break_dialog>>
                 /\ break_emits' = 0
                 /\ created' = 0

\* timer_tick that emits timer_update before testing timer_running.
timer_tick_updates_when_idle ==
    IF ~timer_running
    THEN /\ UNCHANGED <<timer_running, minutes_remaining, main_timer,
                        break_dialog>>
         /\ update_tray_icon(timer_running, minutes_remaining)
         /\ break_emits' = 0
         /\ created' = 0
    ELSE /\ minutes_remaining' = minutes_remaining - 1
         /\ update_tray_icon(timer_running, minutes_remaining - 1)
         /\ IF minutes_remaining - 1 <= 0
            THEN /\ timer_running' = FALSE
                 /\ main_timer' = [main_timer EXCEPT !.active = FALSE]
                 /\ break_emits' = 1
                 /\ show_break_notification
            ELSE /\ UNCHANGED <<timer_running, main_timer, break_dialog>>
                 /\ break_emits' = 0
                 /\ created' = 0

\* timer_tick with the expiry test off by one (<= 1 instead of <= 0).
timer_tick_expires_early ==
    IF ~timer_running
    THEN /\ UNCHANGED <<timer_running, minutes_remaining, main_timer,
                        tray_icon, tray_tooltip, break_dialog>>
         /\ break_emits' = 0
         /\ created' = 0
    ELSE /\ minutes_remaining' = minutes_remaining - 1
         /\ update_tray_icon(timer_running, minutes_remaining - 1)
         /\ IF minutes_remaining - 1 <= 1
            THEN /\ timer_running' = FALSE
                 /\ main_timer' = [main_timer EXCEPT !.active = FALSE]
                 /\ break_emits' = 1
                 /\ show_break_notification
            ELSE /\ UNCHANGED <<timer_running, main_timer, break_dialog>>
                 /\ break_emits' = 0
                 /\ created' = 0

timer_tick ==
    IF ~timer_running
    THEN /\ UNCHANGED <<timer_running, minutes_remaining, main_timer,
                        tray_icon, tray_tooltip, break_dialog>>
         /\ break_emits' = 0
         /\ created' = 0
    ELSE /\ minutes_remaining' = minutes_remaining - 1
         /\ update_tray_icon(timer_running, minutes_remaining - 1)
         /\ IF minutes_remaining - 1 <= 0
            THEN /\ timer_running' = FALSE
                 /\ main_timer' = [main_timer EXCEPT !.active = FALSE]
                 /\ break_emits' = 1
                 /\ show_break_notification
            ELSE /\ UNCHANGED <<timer_running, main_timer, break_dialog>>
                 /\ break_emits' = 0
                 /\ created' = 0

quit_app ==
    process' = "exit_0"

----------------------------------------------------------------------------
(* Slots of the break dialog *)

\* accept that hides the dialog without emitting finished.
accept_without_finished(d, path) ==
    /\ break_dialog' = <<[d EXCEPT !.visible = FALSE,
                                   !.close_path = IF @ = "none" THEN path ELSE @]>>
    /\ finished_emits' = 0
    /\ UNCHANGED <<start_action, stop_action, tray_icon, tray_tooltip>>

\* QDialog.accept(): hide, then emit finished, which runs break_finished.
accept(d, path) ==
    /\ break_dialog' = <<[d EXCEPT !.visible = FALSE,
                                   !.finished_count = @ + 1,
                                   !.close_path = IF @ = "none" THEN path ELSE @]>>
    /\ finished_emits' = 1
    /\ break_finished

\* countdown_tick without the QTimer.singleShot(2000, self.accept) call.
countdown_tick_no_auto_close ==
    IF D.seconds_remaining - 1 <= 0
    THEN break_dialog' =
             <<[D EXCEPT !.seconds_remaining = @ - 1,
                         !.ticks = @ + 1,
                         !.countdown_timer.active = FALSE,
                         !.countdown_label = CompleteText,
                         !.done_button = "Start Next Timer"]>>
    ELSE break_dialog' =
             <<[D EXCEPT !.seconds_remaining = @ - 1,
                         !.ticks = @ + 1,
                         !.countdown_label = RemainingText(D.seconds_remaining - 1)]>>

\* countdown_tick with the completion test off by one (<= 1 instead of <= 0).
countdown_tick_completes_early ==
    IF D.seconds_remaining - 1 <= 1
    THEN break_dialog' =
             <<[D EXCEPT !.seconds_remaining = @ - 1,
                         !.ticks = @ + 1,
                         !.countdown_timer.active = FALSE,
                         !.countdown_label = CompleteText,
                         !.done_button = "Start Next Timer",
                         !.single_shot = TRUE]>>
    ELSE break_dialog' =
             <<[D EXCEPT !.seconds_remaining = @ - 1,
                         !.ticks = @ + 1,
                         !.countdown_label = RemainingText(D.seconds_remaining - 1)]>>

countdown_tick ==
    IF D.seconds_remaining - 1 <= 0
    THEN break_dialog' =
             <<[D EXCEPT !.seconds_remaining = @ - 1,
                         !.ticks = @ + 1,
                         !.countdown_timer.active = FALSE,
                         !.countdown_label = CompleteText,
                         !.done_button = "Start Next Timer",
                         !.single_shot = TRUE]>>
    ELSE break_dialog' =
             <<[D EXCEPT !.seconds_remaining = @ - 1,
                         !.ticks = @ + 1,
                         !.countdown_label = RemainingText(D.seconds_remaining - 1)]>>

----------------------------------------------------------------------------
(* Events delivered by the event loop *)

Fixed == <<process, error_box, debug_mode, tray_visible>>

Seconds(msec) == msec \div 1000

\* The clock after a callback: a timer that was started, or a repeating
\* timer that has just fired, runs for its whole interval; a timer that is
\* no longer active, or belonged to a dialog that was replaced, is dropped.
ClockAfter(main_armed, countdown_fired) ==
    IF ~clock.timed THEN clock
    ELSE [timed     |-> TRUE,
          main      |-> IF ~main_timer'.active THEN 0
                        ELSE IF main_armed THEN Seconds(main_timer'.interval)
                        ELSE clock.main,
          countdown |-> IF break_dialog' = None THEN 0
                        ELSE IF ~break_dialog'[1].countdown_timer.active THEN 0
                        ELSE IF created' = 1 \/ countdown_fired
                             THEN Seconds(break_dialog'[1].countdown_timer.interval)
                        ELSE clock.countdown,
          grace     |-> IF break_dialog' = None THEN 0
                        ELSE IF ~break_dialog'[1].single_shot THEN 0
                        ELSE IF countdown_fired THEN Seconds(GraceDelay)
                        ELSE clock.grace]

StartTriggered ==
    /\ process = "running"
    /\ start_action
    /\ start_timer
    /\ last' = "start_timer"
    /\ UNCHANGED Fixed
    /\ clock' = ClockAfter(TRUE, FALSE)

StopTriggered ==
    /\ process = "running"
    /\ stop_action
    /\ stop_timer
    /\ last' = "stop_timer"
    /\ UNCHANGED Fixed
    /\ clock' = ClockAfter(FALSE, FALSE)

MainTimerTimeout ==
    /\ process = "running"
    /\ clock.timed => clock.main = 0
    /\ main_timer.active
    /\ timer_tick
    /\ last' = "timer_tick"
    /\ finished_emits' = 0
    /\ UNCHANGED <<start_action, stop_action>>
    /\ UNCHANGED Fixed
    /\ clock' = ClockAfter(TRUE, FALSE)

CountdownTimeout ==
    /\ process = "running"
    /\ clock.timed => clock.countdown = 0
    /\ HasDialog
    /\ D.countdown_timer.active
    /\ countdown_tick
    /\ last' = "countdown_tick"
    /\ break_emits' = 0
    /\ created' = 0
    /\ finished_emits' = 0
    /\ UNCHANGED <<timer_running, minutes_remaining, main_timer, start_action,
                   stop_action, tray_icon, tray_tooltip>>
    /\ UNCHANGED Fixed
    /\ clock' = ClockAfter(FALSE, TRUE)

DoneButtonClicked ==
    /\ process = "running"
    /\ HasDialog
    /\ D.visible
    /\ accept(D, IF D.seconds_remaining > 0 THEN "early" ELSE "button")
    /\ last' = "done_button"
    /\ break_emits' = 0
    /\ created' = 0
    /\ UNCHANGED <<timer_running, minutes_remaining, main_timer>>
    /\ UNCHANGED Fixed
    /\ clock' = ClockAfter(FALSE, FALSE)

SingleShotTimeout ==
    /\ process = "running"
    /\ clock.timed => clock.grace = 0
    /\ HasDialog
    /\ D.single_shot
    /\ accept([D EXCEPT !.single_shot = FALSE], "auto")
    /\ last' = "auto_close"
    /\ break_emits' = 0
    /\ created' = 0
    /\ UNCHANGED <<timer_running, minutes_remaining, main_timer>>
    /\ UNCHANGED Fixed
    /\ clock' = ClockAfter(FALSE, FALSE)

QuitTriggered ==
    /\ process = "running"
    /\ quit_app
    /\ last' = "quit_app"
    /\ break_emits' = 0
    /\ created' = 0
    /\ finished_emits' = 0
    /\ UNCHANGED <<error_box, debug_mode, tray_visible, timer_running,
                   minutes_remaining, main_timer, start_action, stop_action,
                   tray_icon, tray_tooltip, break_dialog, clock>>

Next ==
    \/ StartTriggered
    \/ StopTriggered
    \/ MainTimerTimeout
    \/ CountdownTimeout
    \/ DoneButtonClicked
    \/ SingleShotTimeout
    \/ QuitTriggered

Spec == Init /\ [][Next]_vars

----------------------------------------------------------------------------
(* timer_tick called as a method, whether or not main_timer is active *)

TimerTickCalled ==
    /\ process = "running"
    /\ ~timer_running
    /\ timer_tick
    /\ last' = "timer_tick"
    /\ finished_emits' = 0
    /\ UNCHANGED <<start_action, stop_action>>
    /\ UNCHANGED Fixed
    /\ clock' = ClockAfter(FALSE, FALSE)

CallNext == Next \/ TimerTickCalled

SpecCall == Init /\ [][CallNext]_vars

----------------------------------------------------------------------------
(* update_tray_icon applied to every (timer_running, minutes) in range *)

IconInit ==
    /\ process = "running"
    /\ error_box = FALSE
    /\ debug_mode \in BOOLEAN
    /\ timer_running \in BOOLEAN
    /\ minutes_remaining \in 0..WorkMinutes
    /\ main_timer = [active |-> FALSE, interval |-> 0]
    /\ start_action = ~timer_running
    /\ stop_action = timer_running
    /\ tray_icon = NoIcon
    /\ tray_tooltip = InitialToolTip
    /\ tray_visible = TRUE
    /\ break_dialog = None
    /\ last = "init"
    /\ break_emits = 0
    /\ created = 0
    /\ finished_emits = 0
    /\ clock = Untimed

IconUpdated ==
    /\ update_tray_icon(timer_running, minutes_remaining)
    /\ last' = "update_tray_icon"
    /\ UNCHANGED <<timer_running, minutes_remaining, main_timer, start_action,
                   stop_action, break_dialog, break_emits, created,
                   finished_emits>>
    /\ UNCHANGED Fixed
    /\ UNCHANGED clock

IconNext == IconUpdated

SpecIcon == IconInit /\ [][IconNext]_vars

----------------------------------------------------------------------------
(* One work/break cycle after another: the user starts the timer only when *)
(* it is not running and no break dialog is open, and never stops it or    *)
(* quits; active timers keep firing, a click on the dialog button may or   *)
(* may not come.                                                           *)

StartCycle ==
    /\ ~timer_running
    /\ ~(HasDialog /\ D.visible)
    /\ StartTriggered

LiveNext ==
    \/ StartCycle
    \/ MainTimerTimeout
    \/ CountdownTimeout
    \/ DoneButtonClicked
    \/ SingleShotTimeout

SpecLive ==
    /\ Init
    /\ [][LiveNext]_vars
    /\ WF_vars(MainTimerTimeout)
    /\ WF_vars(CountdownTimeout)
    /\ WF_vars(SingleShotTimeout)

----------------------------------------------------------------------------
(* The same callbacks with the timers' intervals: time passes in steps of  *)
(* one second, only while no active timer is due, and a timer fires only   *)
(* when it is due.  Callbacks due at the same instant run in any order.    *)

Timed == [timed |-> TRUE, main |-> 0, countdown |-> 0, grace |-> 0]

TimedInit ==
    /\ InitAvailable \/ InitUnavailable
    /\ clock = Timed

CountdownActive == HasDialog /\ D.countdown_timer.active
GracePending == HasDialog /\ D.single_shot

TimePasses ==
    /\ process = "running"
    /\ clock.timed
    /\ main_timer.active \/ CountdownActive \/ GracePending
    /\ main_timer.active => clock.main > 0
    /\ CountdownActive => clock.countdown > 0
    /\ GracePending => clock.grace > 0
    /\ clock' = [timed     |-> TRUE,
                 main      |-> IF main_timer.active THEN clock.main - 1 ELSE 0,
                 countdown |-> IF CountdownActive THEN clock.countdown - 1 ELSE 0,
                 grace     |-> IF GracePending THEN clock.grace - 1 ELSE 0]
    /\ last' = "time_passes"
    /\ break_emits' = 0
    /\ created' = 0
    /\ finished_emits' = 0
    /\ UNCHANGED <<timer_running, minutes_remaining, main_timer, start_action,
                   stop_action, tray_icon, tray_tooltip, break_dialog>>
    /\ UNCHANGED Fixed

TimedNext == Next \/ TimePasses

SpecTimed == TimedInit /\ [][TimedNext]_vars

----------------------------------------------------------------------------
(* Properties *)

IdleIcon == [bg |-> White, fg |-> Gray, text |-> <<"2", "0">>]

FreshDialog == [BreakDialog EXCEPT !.visible = TRUE]

\* A dialog is live while it is on screen, its countdown timer is active or
\* its auto-close is pending.
Live(d) == d.visible \/ d.countdown_timer.active \/ d.single_shot

\* C1: at most one break dialog is open or has a live countdown or pending
\* auto-close, and no new BreakDialog is ever constructed while the previous
\* one is still open, counting down or waiting for its auto-close.
C1_SingleBreakState ==
    [][/\ Cardinality({i \in 1..Len(break_dialog') : Live(break_dialog'[i])}) <= 1
       /\ created' = 1 => (break_dialog = None \/ ~Live(D))]_vars

\* C2: a break dialog signals completion at most once over its life, and
\* once it has closed none of its callbacks runs again: no countdown tick,
\* no button click, no auto-close, hence no further completion signal.
C2_ClosedIsTerminal ==
    [][/\ HasDialog' => break_dialog'[1].finished_count <= 1
       /\ (HasDialog /\ D.close_path # "none")
             => last' \notin {"countdown_tick", "done_button", "auto_close"}]_vars

\* C3: once the dialog was closed by early dismissal, its countdown timer is
\* cancelled: no countdown tick runs for it, seconds_remaining never changes
\* again and no auto-close is scheduled.
C3_CloseCancelsCountdown ==
    [][(HasDialog /\ D.close_path = "early" /\ created' = 0)
          => /\ last' # "countdown_tick"
             /\ break_dialog'[1].seconds_remaining = D.seconds_remaining
             /\ ~break_dialog'[1].single_shot]_vars

\* C4: a tick taken while Running with minutes_remaining = 1 sets it to 0,
\* sets Idle, stops the main timer and emits the break signal once, creating
\* one fresh visible dialog, all in that step; a tick with minutes_remaining
\* > 1 emits no break signal, creates no dialog and stays Running.
C4_TickAtOne ==
    [][(last' = "timer_tick" /\ timer_running)
          => IF minutes_remaining = 1
             THEN /\ minutes_remaining' = 0
                  /\ ~timer_running'
                  /\ ~main_timer'.active
                  /\ break_emits' = 1
                  /\ created' = 1
                  /\ break_dialog' = <<FreshDialog>>
             ELSE /\ minutes_remaining > 1
                  /\ minutes_remaining' = minutes_remaining - 1
                  /\ timer_running'
                  /\ main_timer'.active
                  /\ break_emits' = 0
                  /\ created' = 0
                  /\ break_dialog' = break_dialog]_vars

C4_Witness ==
    /\ last = "timer_tick"
    /\ minutes_remaining = 0
    /\ ~timer_running
    /\ break_emits = 1
    /\ created = 1
    /\ HasDialog
    /\ D.visible

\* C5: every step that changes minutes_remaining begins in Running or is the
\* start_timer step; no step from Idle to Idle changes it.
C5_MutatedOnlyWhileRunning ==
    [][minutes_remaining' # minutes_remaining
          => (timer_running \/ last' = "start_timer")]_vars

\* C6: whenever a break dialog emits its completion signal, by early
\* dismissal or by auto-close, the resulting state has the start action
\* enabled, the stop action disabled and the idle icon (gray on white,
\* label 20) displayed.
C6_CompletionRestoresIdle ==
    finished_emits = 1
        => /\ start_action
           /\ ~stop_action
           /\ tray_icon = IdleIcon

\* C7: clicking Done Early while seconds_remaining is in 1..20 hides the
\* dialog and runs break_finished in that same step, leaving the countdown
\* value as it was.
C7_EarlyDismissal ==
    [][(last' = "done_button" /\ D.seconds_remaining \in 1..BreakSeconds)
          => /\ ~break_dialog'[1].visible
             /\ break_dialog'[1].seconds_remaining = D.seconds_remaining
             /\ break_dialog'[1].finished_count = D.finished_count + 1
             /\ finished_emits' = 1
             /\ start_action'
             /\ ~stop_action'
             /\ tray_icon'.text = <<"2", "0">>]_vars

C7_Witness ==
    /\ last = "done_button"
    /\ HasDialog
    /\ D.close_path = "early"
    /\ D.seconds_remaining = 7
    /\ D.countdown_timer.active
    /\ ~D.visible
    /\ finished_emits = 1

C8_DialogInv ==
    HasDialog
        => /\ D.seconds_remaining \in 0..BreakSeconds
           /\ D.seconds_remaining = BreakSeconds - D.ticks
           /\ (D.countdown_label = CompleteText) = (D.ticks = 20)
           /\ (D.done_button = "Start Next Timer") = (D.ticks = 20)
           /\ D.countdown_timer.active = (D.ticks < 20)
           /\ (D.ticks < 20 => ~D.single_shot)
           /\ (D.ticks = 20 /\ D.visible => D.single_shot)
           /\ (D.close_path = "auto" => D.ticks = 20)
           /\ (last = "auto_close" => ~D.visible /\ ~D.single_shot)

\* C8: seconds_remaining starts at 20, drops by exactly 1 per countdown tick
\* and stays in [0,20]; the dialog shows "Break complete!" from the 20th
\* tick and not before, the countdown timer is stopped from then on, the
\* auto-close is pending only after completion and a dialog still on screen
\* after completion always has it pending; when it fires the dialog closes.
C8_Countdown ==
    [][/\ C8_DialogInv'
       /\ last' = "countdown_tick"
             => /\ D.countdown_timer.active
                /\ break_dialog'[1].seconds_remaining = D.seconds_remaining - 1
                /\ break_dialog'[1].visible = D.visible]_vars

C8_Witness ==
    /\ last = "auto_close"
    /\ HasDialog
    /\ D.close_path = "auto"
    /\ D.ticks = 20
    /\ D.seconds_remaining = 0
    /\ D.finished_count = 1
    /\ ~D.visible

\* C9: start_timer, from whatever state it is triggered in, ends Running
\* with minutes_remaining = 20, the main timer active at the interval of the
\* mode, start disabled and stop enabled.
C9_StartPost ==
    last = "start_timer"
        => /\ timer_running
           /\ minutes_remaining = 20
           /\ main_timer.active
           /\ main_timer.interval = (IF debug_mode THEN 1000 ELSE 60000)
           /\ ~start_action
           /\ stop_action

C9_Witness ==
    /\ last = "start_timer"
    /\ HasDialog
    /\ D.visible
    /\ timer_running
    /\ stop_action

\* C10: stop_timer ends Idle with minutes_remaining = 20, start enabled,
\* stop disabled and the main timer inactive; while the main timer is
\* inactive no step other than start_timer activates it, runs timer_tick,
\* decrements minutes_remaining or emits the break signal.
C10_StopPost ==
    [][/\ last' = "stop_timer"
             => /\ ~timer_running'
                /\ minutes_remaining' = 20
                /\ start_action'
                /\ ~stop_action'
                /\ ~main_timer'.active
       /\ (~main_timer.active /\ last' # "start_timer")
             => /\ ~main_timer'.active
                /\ last' # "timer_tick"
                /\ minutes_remaining' >= minutes_remaining
                /\ break_emits' = 0]_vars

C10_Witness ==
    /\ last = "stop_timer"
    /\ ~timer_running
    /\ ~main_timer.active
    /\ main_timer.interval # 0
    /\ minutes_remaining = 20
    /\ start_action

\* C11: timer_tick run while Idle changes nothing: minutes_remaining,
\* timer_running, the main timer, both menu actions, the displayed icon and
\* tooltip and the break dialog are as before, and no break signal is
\* emitted and no dialog constructed.
C11_IdleTickNoOp ==
    [][(last' = "timer_tick" /\ ~timer_running)
          => /\ UNCHANGED <<minutes_remaining, timer_running, main_timer,
                            start_action, stop_action, tray_icon,
                            tray_tooltip, break_dialog>>
             /\ break_emits' = 0
             /\ created' = 0]_vars

C11_Witness ==
    /\ last = "timer_tick"
    /\ ~timer_running
    /\ minutes_remaining = 20
    /\ tray_icon = IdleIcon
    /\ break_emits = 0

DigitValue(c) == CHOOSE i \in 0..9 : Digits[i + 1] = c

RECURSIVE DecimalValue(_)
DecimalValue(text) ==
    IF Len(text) = 0 THEN 0
    ELSE 10 * DecimalValue(SubSeq(text, 1, Len(text) - 1))
             + DigitValue(text[Len(text)])

\* C12: for every remaining in 0..20 and both values of running, the text
\* colour of the rendered icon is gray when not running and otherwise green
\* above 10, orange from 6 to 10 and red up to 5, and the label reads back
\* as the remaining value that was passed in.
C12_IconClassification ==
    last = "update_tray_icon"
        => /\ ~timer_running => tray_icon.fg = <<136, 136, 136>>
           /\ (timer_running /\ minutes_remaining > 10)
                 => tray_icon.fg = <<68, 255, 68>>
           /\ (timer_running /\ minutes_remaining \in 6..10)
                 => tray_icon.fg = <<255, 170, 68>>
           /\ (timer_running /\ minutes_remaining <= 5)
                 => tray_icon.fg = <<255, 68, 68>>
           /\ Len(tray_icon.text) = (IF minutes_remaining < 10 THEN 1 ELSE 2)
           /\ DecimalValue(tray_icon.text) = minutes_remaining

C12_Witness ==
    /\ last = "update_tray_icon"
    /\ timer_running
    /\ minutes_remaining = 6
    /\ tray_icon.fg = Orange
    /\ tray_icon.text = <<"6">>

\* C14: minutes_remaining is 20 initially and after every start_timer and
\* stop_timer, always lies in 0..20, drops by exactly 1 on every tick taken
\* while Running, and is lowered by no other step and never from 0.
C14_MinutesDomain ==
    /\ minutes_remaining = 20
    /\ [][/\ minutes_remaining' \in 0..20
          /\ last' \in {"start_timer", "stop_timer"} => minutes_remaining' = 20
          /\ (last' = "timer_tick" /\ timer_running)
                => minutes_remaining' = minutes_remaining - 1
          /\ minutes_remaining' < minutes_remaining
                => /\ last' = "timer_tick"
                   /\ timer_running
                   /\ minutes_remaining > 0]_vars

C14_Witness ==
    /\ last = "timer_tick"
    /\ minutes_remaining = 0
    /\ ~main_timer.active
    /\ tray_icon.text = <<"0">>

\* C15: when the system tray is unavailable the error is reported and the
\* process has exited with status 1: no tray icon, no enabled menu action,
\* no started main timer, no dialog, and no callback has ever run.
C15_TrayUnavailableExits ==
    error_box
        => /\ process = "exit_1"
           /\ ~tray_visible
           /\ tray_icon = NoIcon
           /\ ~start_action
           /\ ~stop_action
           /\ main_timer = [active |-> FALSE, interval |-> 0]
           /\ ~timer_running
           /\ ~HasDialog
           /\ last = "init"

C15_Witness ==
    /\ error_box
    /\ process = "exit_1"
    /\ ~tray_visible
    /\ last = "init"

\* C17: the icon displayed in the tray is always the rendering of the
\* current (timer_running, minutes_remaining).
C17_IconMatchesState ==
    tray_visible
        => tray_icon = create_tray_icon(timer_running, minutes_remaining)

\* C18: stop is enabled exactly when Running, start is enabled exactly when
\* Idle with no break dialog open, and exactly one of the two is enabled.
C18_ActionsMatchRunState ==
    tray_visible
        => /\ stop_action = timer_running
           /\ start_action = (~timer_running /\ ~(HasDialog /\ D.visible))
           /\ start_action # stop_action

\* C19: while a break dialog is open the controller is Idle and the main
\* timer is not ticking.
C19_NoOverlap ==
    (HasDialog /\ D.visible) => (~timer_running /\ ~main_timer.active)

\* C20: the main timer is active exactly when timer_running is true, and
\* timer_tick never runs with timer_running false.
C20_TimerActiveIffRunning ==
    /\ main_timer.active = timer_running
    /\ [][/\ main_timer'.active = timer_running'
          /\ last' = "timer_tick" => timer_running]_vars

C20_Witness ==
    /\ last = "stop_timer"
    /\ ~timer_running
    /\ ~main_timer.active
    /\ HasDialog
    /\ D.countdown_timer.active

\* C16: once the timer was started and the user neither stops nor restarts
\* it, the break dialog is constructed by the tick that takes
\* minutes_remaining from 1 to 0 (the 20th after the start) and by no other
\* step, and that dialog eventually closes, leaving the controller Idle with
\* the start action enabled.
C16_CycleCompletes ==
    /\ [][created' = 1 => (last' = "timer_tick" /\ minutes_remaining = 1)]_vars
    /\ (last = "start_timer") ~> (HasDialog /\ D.visible /\ ~timer_running)
    /\ (HasDialog /\ D.visible /\ ~timer_running)
          ~> (HasDialog /\ ~D.visible /\ ~timer_running /\ start_action)

C16_Witness ==
    /\ last = "auto_close"
    /\ HasDialog
    /\ ~D.visible
    /\ D.finished_count = 1
    /\ ~timer_running
    /\ start_action
    /\ ~stop_action

\* Holds of every state reached without --debug: a dialog stays live for at
\* most 22 seconds after the expiry that constructed it, and the main timer,
\* restarted no earlier than that expiry, first ticks 60 seconds later.
ReachableWithoutDebug ==
    (timer_running /\ HasDialog /\ Live(D)) => minutes_remaining = WorkMinutes

C13_WithoutDebug == ~debug_mode => ReachableWithoutDebug

\* C13: --debug changes only the timing: every combination of timer_running,
\* minutes_remaining, action enablement and break-dialog state that is
\* reached with the flag is also reached without it.
C13_DebugOnlyTiming == debug_mode => ReachableWithoutDebug

====
